---- MODULE Spec2Model ----
(***************************************************************************)
(* The Todo service of src/FastAPI/main.py: the in-memory list             *)
(* todos_storage and the HTTP handlers that read and mutate it.            *)
(*                                                                         *)
(* Every handler first awaits simulate_async_operation() (main.py:223),    *)
(* which touches no state, and then runs to its return without another     *)
(* suspension point (get_todo_by_id has no await inside).  A request is    *)
(* therefore one step: validation of the input by the framework, then the  *)
(* handler body.  The client is the sequential one of the tests: it sends  *)
(* a request, reads the response, and only then sends the next request.    *)
(* The list starts empty, as main.py:108 creates it and as the tests'      *)
(* fixture leaves it.                                                      *)
(***************************************************************************)
EXTENDS Integers, Sequences, FiniteSets, TLC

(***************************************************************************)
(* Bounds of the model.                                                    *)
(***************************************************************************)
\* how many times datetime.now() is read in a run
MaxClock == 3
\* how many optional keys a JSON request body carries
MaxBodyKeys == 1
\* how many records the list holds when GET /todos is checked on its own
MaxListed == 2
\* how many requests are in flight at the same time
MaxTasks == 2

(***************************************************************************)
(* Constants of the program.                                               *)
(***************************************************************************)
TitleMinLength == 1
TitleMaxLength == 200
DescriptionMaxLength == 1000
PriorityMin == 1
PriorityMax == 5
PriorityDefault == 1
LimitMin == 1
LimitMax == 100
SkipMin == 0

(***************************************************************************)
(* Python values.  A value that may be None is None or Some(v); a string   *)
(* is a sequence of characters.                                            *)
(***************************************************************************)
None == [t |-> "None"]
Some(x) == [t |-> "Some", v |-> x]

\* what pydantic returns for an input it rejects (a 422 response)
ValidationError == [t |-> "ValidationError"]

\* Python truthiness of an optional bool / optional string
TruthyBool(x) == x # None /\ x.v
TruthyStr(x) == x # None /\ x.v # <<>>

\* not x, for an optional bool
not_(x) == Some(~TruthyBool(x))

IsSpace(c) == c \in {" ", "\t", "\n"}

RECURSIVE lstrip(_)
lstrip(s) == IF s # <<>> /\ IsSpace(Head(s)) THEN lstrip(Tail(s)) ELSE s

RECURSIVE rstrip(_)
rstrip(s) ==
    IF s # <<>> /\ IsSpace(s[Len(s)]) THEN rstrip(SubSeq(s, 1, Len(s) - 1)) ELSE s

\* str.strip()
strip(s) == rstrip(lstrip(s))

ModelFields == {"title", "description", "priority", "completed"}

VARIABLES
    todos_storage,  \* main.py:108, the list of Todo records
    clock,          \* the number of datetime.now() readings so far
    uuids,          \* the number of uuid4() draws so far
    resp,           \* the response the client has not read yet, with its request
    modified,       \* history: ids on which an update or toggle succeeded
    deleted,        \* history: ids on which a delete succeeded
    tasks           \* the requests in flight: where each handler stands

vars == <<todos_storage, clock, uuids, resp, modified, deleted, tasks>>

(***************************************************************************)
(* The pydantic models.  A request body is a function from the keys it     *)
(* carries to their values (None for a JSON null).  Validation returns     *)
(* ValidationError or the validated value.                                 *)
(***************************************************************************)

TodoBase_title_exclusive_max(v) ==
    IF v = None THEN ValidationError
    ELSE IF Len(v.v) < TitleMinLength \/ Len(v.v) >= TitleMaxLength THEN ValidationError
    ELSE IF strip(v.v) = <<>> THEN ValidationError
    ELSE Some(strip(v.v))

\* TodoBase.title: Field(..., min_length=1, max_length=200) and the validator
TodoBase_title(v) ==
    IF v = None THEN ValidationError
    ELSE IF Len(v.v) < TitleMinLength \/ Len(v.v) > TitleMaxLength THEN ValidationError
    ELSE IF strip(v.v) = <<>> THEN ValidationError
    ELSE Some(strip(v.v))

\* description: Field(None, max_length=1000), on TodoBase and on TodoUpdate
Field_description(v) ==
    IF v = None THEN None
    ELSE IF Len(v.v) > DescriptionMaxLength THEN ValidationError
    ELSE v

\* TodoBase.priority: Field(1, ge=1, le=5)
TodoBase_priority(v) ==
    IF v = None THEN ValidationError
    ELSE IF v.v < PriorityMin \/ v.v > PriorityMax THEN ValidationError
    ELSE v

\* TodoBase.completed: Field(False)
TodoBase_completed(v) == IF v = None THEN ValidationError ELSE v

\* TodoBase(**body): a missing title is an error, the other fields default;
\* keys that are no field of the model are ignored
TodoBase(body) ==
    LET title == IF "title" \in DOMAIN body
                 THEN TodoBase_title(body["title"]) ELSE ValidationError
        description == IF "description" \in DOMAIN body
                       THEN Field_description(body["description"]) ELSE None
        priority == IF "priority" \in DOMAIN body
                    THEN TodoBase_priority(body["priority"]) ELSE Some(PriorityDefault)
        completed == IF "completed" \in DOMAIN body
                     THEN TodoBase_completed(body["completed"]) ELSE Some(FALSE)
    IN  IF ValidationError \in {title, description, priority, completed}
        THEN ValidationError
        ELSE [title |-> title, description |-> description,
              priority |-> priority, completed |-> completed]

\* class TodoCreate(TodoBase): pass
TodoCreate(body) == TodoBase(body)

\* TodoUpdate.title: Field(None, min_length=1, max_length=200) and the validator
TodoUpdate_title(v) ==
    IF v = None THEN None
    ELSE IF Len(v.v) < TitleMinLength \/ Len(v.v) > TitleMaxLength THEN ValidationError
    ELSE IF strip(v.v) = <<>> THEN ValidationError
    ELSE IF TruthyStr(v) THEN Some(strip(v.v)) ELSE v

\* TodoUpdate.priority: Field(None, ge=1, le=5)
TodoUpdate_priority(v) ==
    IF v = None THEN None
    ELSE IF v.v < PriorityMin \/ v.v > PriorityMax THEN ValidationError
    ELSE v

\* TodoUpdate.completed: bool | None = None
TodoUpdate_completed(v) == v

\* TodoUpdate(**body): every field of the model, None where the body does
\* not carry it, and the names of the fields the body carries
\* (model_fields_set); keys that are no field of the model are ignored
TodoUpdate(body) ==
    LET set == DOMAIN body \cap ModelFields
        val == [f \in ModelFields |->
                  IF f \notin set THEN None
                  ELSE CASE f = "title" -> TodoUpdate_title(body[f])
                         [] f = "description" -> Field_description(body[f])
                         [] f = "priority" -> TodoUpdate_priority(body[f])
                         [] f = "completed" -> TodoUpdate_completed(body[f])]
    IN  IF \E f \in set : val[f] = ValidationError
        THEN ValidationError
        ELSE [fields |-> val, fields_set |-> set]

\* model_dump() of a TodoCreate: its four fields
model_dump(m) == [f \in ModelFields |-> m[f]]

model_dump_all(m) == [f \in ModelFields |-> m.fields[f]]

\* model_dump(exclude_unset=True) of a TodoUpdate: only the fields that were set
model_dump_exclude_unset(m) == [f \in m.fields_set |-> m.fields[f]]

Todo_stamped(data, id, now) ==
    LET base == TodoBase(data)
    IN  [id |-> id, title |-> base.title, description |-> base.description,
         priority |-> base.priority, completed |-> base.completed,
         created_at |-> now, updated_at |-> Some(now)]

\* Todo(**data) with id from uuid4(), created_at from datetime.now() and
\* updated_at left at its default
Todo(data, id, now) ==
    LET base == TodoBase(data)
    IN  [id |-> id, title |-> base.title, description |-> base.description,
         priority |-> base.priority, completed |-> base.completed,
         created_at |-> now, updated_at |-> None]


uuid4_from_length == Len(todos_storage) + 1

\* uuid4(): an identifier no earlier draw returned
uuid4 == uuids + 1

\* datetime.now(): the next reading of the clock
datetime_now == clock + 1

(***************************************************************************)
(* Helpers of the handlers.                                                *)
(***************************************************************************)
SeqMin(S) == CHOOSE i \in S : \A j \in S : i <= j

\* get_todo_by_id: the position of the first record with that id, 0 for
\* TodoNotFoundError (the handler gets a reference to the stored object)
get_todo_by_id(todo_id) ==
    LET hits == {i \in DOMAIN todos_storage : todos_storage[i].id = todo_id}
    IN  IF hits = {} THEN 0 ELSE SeqMin(hits)

list_remove_last(s, x) == SubSeq(s, 1, Len(s) - 1)

\* list.remove(x): drops the first element equal to x
list_remove(s, x) ==
    LET i == SeqMin({j \in DOMAIN s : s[j] = x})
    IN  SubSeq(s, 1, i - 1) \o SubSeq(s, i + 1, Len(s))

list_insert_front(s, x) == <<x>> \o s

\* list.append(x)
list_append(s, x) == Append(s, x)

\* for field, value in update_data.items(): setattr(todo, field, value)
setattr_items(todo, update_data) ==
    [a \in DOMAIN todo |-> IF a \in DOMAIN update_data THEN update_data[a] ELSE todo[a]]

\* s[start : stop] for 0 <= start
slice(s, start, stop) ==
    LET lo == IF start > Len(s) THEN Len(s) ELSE start
        hi == IF stop > Len(s) THEN Len(s) ELSE stop
    IN  SubSeq(s, lo + 1, hi)

\* [todo for todo in s if todo.<field> == value]
filter_eq(s, field, value) == SelectSeq(s, LAMBDA todo : todo[field] = value)

apply_filters_truthy(s, completed, priority) ==
    LET by_completed == IF TruthyBool(completed)
                        THEN filter_eq(s, "completed", completed) ELSE s
    IN  IF priority # None THEN filter_eq(by_completed, "priority", priority)
        ELSE by_completed

\* get_todos, "Apply filters": each filter that is not None narrows the list
apply_filters(s, completed, priority) ==
    LET by_completed == IF completed # None
                        THEN filter_eq(s, "completed", completed) ELSE s
    IN  IF priority # None THEN filter_eq(by_completed, "priority", priority)
        ELSE by_completed

paginate_to_limit(s, skip, limit) == slice(s, skip, limit)

\* get_todos, "Apply pagination": filtered_todos[skip : skip + limit]
paginate(s, skip, limit) == slice(s, skip, skip + limit)

\* Query(None, ge=1, le=5) of get_todos
Query_priority(v) ==
    IF v = None THEN None
    ELSE IF v.v < PriorityMin \/ v.v > PriorityMax THEN ValidationError
    ELSE v

\* Query(10, ge=1, le=100) of get_todos
Query_limit(v) == IF v < LimitMin \/ v > LimitMax THEN ValidationError ELSE Some(v)

\* Query(0, ge=0) of get_todos
Query_skip(v) == IF v < SkipMin THEN ValidationError ELSE Some(v)

\* range(1, 6) of get_todo_stats
PriorityRange == PriorityMin..PriorityMax

\* f"priority_{priority}"
priority_key(priority) ==
    CASE priority = 1 -> "priority_1" [] priority = 2 -> "priority_2"
      [] priority = 3 -> "priority_3" [] priority = 4 -> "priority_4"
      [] priority = 5 -> "priority_5"

\* len([todo for todo in s if todo.completed])
count_completed(s) == Len(SelectSeq(s, LAMBDA todo : TruthyBool(todo.completed)))

\* len([todo for todo in s if todo.priority == priority])
count_priority(s, priority) == Len(filter_eq(s, "priority", Some(priority)))

priority_stats_nonzero(s) ==
    LET present == {p \in PriorityRange : count_priority(s, p) > 0}
    IN  [k \in {priority_key(p) : p \in present} |->
            count_priority(s, CHOOSE p \in present : priority_key(p) = k)]

\* the dict priority_stats: one key for every priority of range(1, 6)
priority_stats(s) ==
    [k \in {priority_key(p) : p \in PriorityRange} |->
        count_priority(s, CHOOSE p \in PriorityRange : priority_key(p) = k)]

todo_stats_pending_counted(s) ==
    [total_todos |-> Len(s), completed_todos |-> count_completed(s),
     pending_todos |-> Len(SelectSeq(s, LAMBDA todo : todo.completed = Some(FALSE)))]
        @@ priority_stats(s)

\* the dict get_todo_stats returns
todo_stats(s) ==
    LET total == Len(s)
        completed == count_completed(s)
        pending == total - completed
    IN  [total_todos |-> total, completed_todos |-> completed,
         pending_todos |-> pending] @@ priority_stats(s)

\* HealthResponse(total_todos=...)
HealthResponse(total_todos, now) ==
    [status |-> "healthy", timestamp |-> now, version |-> "1.0.0",
     total_todos |-> total_todos]

(***************************************************************************)
(* Requests.                                                               *)
(***************************************************************************)
TitleInputs == {None, Some(<<>>), Some(<<" ">>), Some(<<" ", "a", " ">>)}
DescriptionInputs == {None, Some(<<"d">>)}
PriorityInputs == {None, Some(0), Some(5)}
CompletedInputs == {None, Some(TRUE)}

\* a key the body does not carry
Absent == [t |-> "Absent"]

JsonBody(all) == [f \in {k \in DOMAIN all : all[k] # Absent} |-> all[f]]

\* JSON bodies: any values of the fields and of updated_at, which is a field
\* of Todo but of neither TodoCreate nor TodoUpdate
AllBodies ==
    {JsonBody([title |-> t, description |-> d, priority |-> p,
               completed |-> c, updated_at |-> u]) :
        t \in TitleInputs \cup {Absent}, d \in DescriptionInputs \cup {Absent},
        p \in PriorityInputs \cup {Absent}, c \in CompletedInputs \cup {Absent},
        u \in {Absent, Some(0)}}

\* bodies of POST /todos: title is required, every other key is optional
CreateBodies == {b \in AllBodies : Cardinality(DOMAIN b \ {"title"}) <= MaxBodyKeys}

\* bodies of PUT /todos/{todo_id}: every key is optional
UpdateBodies == {b \in AllBodies : Cardinality(DOMAIN b) <= MaxBodyKeys}

\* ids a client may ask for: every id handed out so far, and one that is not
TodoIds == 1..(uuids + 1)

\* query parameters of GET /todos
CompletedQueries == {None, Some(TRUE), Some(FALSE)}
PriorityQueries == {None, Some(0), Some(1), Some(5)}
LimitQueries == {LimitMin - 1, LimitMin, LimitMin + 1, LimitMax, LimitMax + 1}
SkipQueries == {SkipMin - 1, SkipMin, SkipMin + 1, SkipMin + MaxListed + 1}

Response(op, status, todo_id, request, result) ==
    [op |-> op, status |-> status, todo_id |-> todo_id, request |-> request,
     result |-> result]

\* no response is waiting to be read
NoResponse == Response("none", 0, 0, None, None)

Init ==
    /\ todos_storage = <<>>
    /\ clock = 0
    /\ uuids = 0
    /\ resp = NoResponse
    /\ modified = {}
    /\ deleted = {}
    /\ tasks = <<>>

\* raise TodoNotFoundError(todo_id): an HTTPException with status 404 and the
\* detail f"Todo with ID {todo_id} not found"
TodoNotFoundError(todo_id) ==
    [status_code |-> 404, detail |-> <<"Todo with ID ", todo_id, " not found">>]

\* what the framework raises for a body or a query that fails validation:
\* status 422 and a list of error entries
RequestValidationError ==
    [status_code |-> 422, detail |-> <<[type |-> "validation_error"]>>]

\* the JSON content of the response to an exception: {"detail": exc.detail}
\* (the model ErrorResponse, with its timestamp, is used by no handler)
error_content(exc) == [detail |-> exc.detail]

\* a request that fails: the response carries the status and the content of
\* the exception, nothing else changes
Fail(op, status, todo_id, request) ==
    /\ resp' = Response(op, status, todo_id, request,
                        error_content(IF status = 404 THEN TodoNotFoundError(todo_id)
                                      ELSE RequestValidationError))
    /\ UNCHANGED <<todos_storage, clock, uuids, modified, deleted>>

\* POST /todos (todo and new_todo are bound by \E to the one value each has)
create_todo(body) ==
    \E todo \in {TodoCreate(body)} :
        IF todo = ValidationError
        THEN Fail("create_todo", 422, 0, None)
        ELSE /\ clock < MaxClock
             /\ \E new_todo \in {Todo(model_dump(todo), uuid4, datetime_now)} :
                    /\ todos_storage' = list_append(todos_storage, new_todo)
                    /\ resp' = Response("create_todo", 201, 0, body, new_todo)
             /\ uuids' = uuids + 1
             /\ clock' = clock + 1
             /\ UNCHANGED <<modified, deleted>>

\* GET /todos/{todo_id}
get_todo(todo_id) ==
    LET i == get_todo_by_id(todo_id)
    IN  IF i = 0
        THEN Fail("get_todo", 404, todo_id, None)
        ELSE /\ resp' = Response("get_todo", 200, todo_id, None, todos_storage[i])
             /\ UNCHANGED <<todos_storage, clock, uuids, modified, deleted>>

\* the body of update_todo once the record is found
update_found(todo_id, i, body, update_data) ==
    /\ clock < MaxClock
    /\ LET existing_todo ==
               [setattr_items(todos_storage[i], update_data)
                   EXCEPT !.updated_at = Some(datetime_now)]
       IN  /\ todos_storage' = [todos_storage EXCEPT ![i] = existing_todo]
           /\ resp' = Response("update_todo", 200, todo_id, body, existing_todo)
    /\ clock' = clock + 1
    /\ modified' = modified \cup {todo_id}
    /\ UNCHANGED <<uuids, deleted>>

update_todo_assign_then_validate(todo_id, body) ==
    LET i == get_todo_by_id(todo_id)
        todo_update == TodoUpdate(body)
        raw == [f \in DOMAIN body \cap ModelFields |-> body[f]]
    IN  IF i = 0
        THEN Fail("update_todo", 404, todo_id, body)
        ELSE IF todo_update = ValidationError
        THEN /\ todos_storage' =
                    [todos_storage EXCEPT ![i] = setattr_items(@, raw)]
             /\ resp' = Response("update_todo", 422, todo_id, body,
                                 error_content(RequestValidationError))
             /\ UNCHANGED <<clock, uuids, modified, deleted>>
        ELSE update_found(todo_id, i, body, model_dump_exclude_unset(todo_update))

update_todo_lookup_first(todo_id, body) ==
    LET todo_update == TodoUpdate(body)
        i == get_todo_by_id(todo_id)
    IN  IF i = 0
        THEN Fail("update_todo", 404, todo_id, body)
        ELSE IF todo_update = ValidationError
        THEN Fail("update_todo", 422, todo_id, body)
        ELSE update_found(todo_id, i, body, model_dump_exclude_unset(todo_update))

\* PUT /todos/{todo_id}: the framework validates the body, then the handler
\* looks the record up
update_todo(todo_id, body) ==
    LET todo_update == TodoUpdate(body)
        i == get_todo_by_id(todo_id)
    IN  IF todo_update = ValidationError
        THEN Fail("update_todo", 422, todo_id, body)
        ELSE IF i = 0
        THEN Fail("update_todo", 404, todo_id, body)
        ELSE update_found(todo_id, i, body, model_dump_exclude_unset(todo_update))

\* DELETE /todos/{todo_id}
delete_todo(todo_id) ==
    LET i == get_todo_by_id(todo_id)
    IN  IF i = 0
        THEN Fail("delete_todo", 404, todo_id, None)
        ELSE /\ todos_storage' = list_remove(todos_storage, todos_storage[i])
             /\ resp' = Response("delete_todo", 204, todo_id, None, None)
             /\ deleted' = deleted \cup {todo_id}
             /\ UNCHANGED <<clock, uuids, modified>>

\* PATCH /todos/{todo_id}/toggle
toggle_todo_completion(todo_id) ==
    LET i == get_todo_by_id(todo_id)
    IN  IF i = 0
        THEN Fail("toggle_todo_completion", 404, todo_id, None)
        ELSE /\ clock < MaxClock
             /\ LET todo == [todos_storage[i] EXCEPT
                               !.completed = not_(@),
                               !.updated_at = Some(datetime_now)]
                IN  /\ todos_storage' = [todos_storage EXCEPT ![i] = todo]
                    /\ resp' = Response("toggle_todo_completion", 200, todo_id,
                                        None, todo)
             /\ clock' = clock + 1
             /\ modified' = modified \cup {todo_id}
             /\ UNCHANGED <<uuids, deleted>>

\* GET /todos
get_todos(completed, priority, limit, skip) ==
    LET query == [completed |-> completed, priority |-> priority,
                  limit |-> limit, skip |-> skip]
    IN  /\ resp' =
             IF ValidationError \in
                   {Query_priority(priority), Query_limit(limit), Query_skip(skip)}
             THEN Response("get_todos", 422, 0, query,
                           error_content(RequestValidationError))
             ELSE Response("get_todos", 200, 0, query,
                           paginate(apply_filters(todos_storage, completed, priority),
                                    skip, limit))
        /\ UNCHANGED <<todos_storage, clock, uuids, modified, deleted>>

\* GET /todos/stats
get_todo_stats ==
    /\ resp' = Response("get_todo_stats", 200, 0, None, todo_stats(todos_storage))
    /\ UNCHANGED <<todos_storage, clock, uuids, modified, deleted>>

\* GET /health; the timestamp of the response is a reading of the clock that
\* no record keeps
health_check ==
    /\ resp' = Response("health_check", 200, 0, None,
                        HealthResponse(Len(todos_storage), datetime_now))
    /\ UNCHANGED <<todos_storage, clock, uuids, modified, deleted>>

\* the sequential client sends a request only when it has read the response
\* to the one before; none of its requests is in flight with another
client_ready == resp = NoResponse /\ UNCHANGED tasks

\* the client reads the response (the tests' client.get/post/put/... return)
read_response ==
    /\ resp # NoResponse
    /\ resp' = NoResponse
    /\ UNCHANGED <<todos_storage, clock, uuids, modified, deleted, tasks>>

Next ==
    \/ client_ready /\ \E body \in CreateBodies : create_todo(body)
    \/ client_ready /\ \E todo_id \in TodoIds : get_todo(todo_id)
    \/ client_ready /\ \E todo_id \in TodoIds, body \in UpdateBodies :
                           update_todo(todo_id, body)
    \/ client_ready /\ \E todo_id \in TodoIds : delete_todo(todo_id)
    \/ client_ready /\ \E todo_id \in TodoIds : toggle_todo_completion(todo_id)
    \/ client_ready /\ get_todo_stats
    \/ client_ready /\ health_check
    \/ read_response

Spec == Init /\ [][Next]_vars

(***************************************************************************)
(* GET /todos on its own: the list holds up to MaxListed records, each     *)
(* created and then updated once with a priority and a completed value     *)
(* (None for a JSON null), and the client sends list requests.             *)
(***************************************************************************)
ListedValues ==
    {[priority |-> p, completed |-> c] :
        p \in {None, Some(1), Some(5)}, c \in {None, Some(TRUE), Some(FALSE)}}

ListedStorage(n, values) ==
    [i \in 1..n |->
        [id |-> i, title |-> Some(<<"a">>), description |-> None,
         priority |-> values[i].priority, completed |-> values[i].completed,
         created_at |-> i, updated_at |-> Some(n + i)]]

InitList ==
    \E n \in 0..MaxListed : \E values \in [1..n -> ListedValues] :
        /\ todos_storage = ListedStorage(n, values)
        /\ clock = 2 * n
        /\ uuids = n
        /\ resp = NoResponse
        /\ modified = 1..n
        /\ deleted = {}
        /\ tasks = <<>>

NextList ==
    \/ client_ready /\
         \E completed \in CompletedQueries, priority \in PriorityQueries,
            limit \in LimitQueries, skip \in SkipQueries :
                get_todos(completed, priority, limit, skip)
    \/ read_response

SpecList == InitList /\ [][NextList]_vars

(***************************************************************************)
(* POST /todos on its own, with titles and priorities at the limits of the *)
(* constraints.                                                            *)
(***************************************************************************)
\* "x" * n
x_times(n) == [i \in 1..n |-> "x"]

BoundaryTitles ==
    {<<>>, <<" ", " ">>, x_times(TitleMaxLength), x_times(TitleMaxLength + 1),
     <<" ">> \o x_times(TitleMaxLength - 2) \o <<" ">>,
     <<" ">> \o x_times(TitleMaxLength)}

BoundaryPriorities ==
    {Absent, Some(PriorityMin - 1), Some(PriorityMin), Some(PriorityMax),
     Some(PriorityMax + 1)}

BoundaryBodies ==
    {JsonBody([title |-> Some(t), priority |-> p]) :
        t \in BoundaryTitles, p \in BoundaryPriorities}

NextCreate ==
    \/ client_ready /\ \E body \in BoundaryBodies : create_todo(body)
    \/ read_response

SpecCreate == Init /\ [][NextCreate]_vars

(***************************************************************************)
(* Requests in flight together, as asyncio.gather sends them to the        *)
(* running server.  The server starts with the sample records of lifespan. *)
(* A handler is a coroutine on the one event loop: it is suspended at      *)
(* asyncio.sleep (main.py:223) and, once resumed, keeps the loop until it   *)
(* returns, through "await get_todo_by_id(...)" as well, since that         *)
(* coroutine awaits nothing.  A handler that looks a record up is modelled *)
(* in two steps, the lookup and what follows it, so that what the loop     *)
(* allows between them is said by the model and not assumed.               *)
(***************************************************************************)
Tasks == 1..MaxTasks

\* lifespan: the three sample records, made before the first request (their
\* titles are written as one token each: no operation looks inside them)
sample_todos ==
    <<[id |-> 1, title |-> Some(<<"Learn FastAPI">>),
       description |-> Some(<<"Complete the FastAPI tutorial">>),
       priority |-> Some(3), completed |-> Some(FALSE),
       created_at |-> 0, updated_at |-> None],
      [id |-> 2, title |-> Some(<<"Write comprehensive tests">>),
       description |-> Some(<<"Implement unit and integration tests">>),
       priority |-> Some(4), completed |-> Some(TRUE),
       created_at |-> 0, updated_at |-> None],
      [id |-> 3, title |-> Some(<<"Deploy to production">>),
       description |-> Some(<<"Set up CI/CD pipeline">>),
       priority |-> Some(5), completed |-> Some(FALSE),
       created_at |-> 0, updated_at |-> None]>>

Request(op, todo_id, body) == [op |-> op, todo_id |-> todo_id, body |-> body]

\* the requests the concurrent clients send
AsyncRequests ==
    {Request("create_todo", 0, [title |-> Some(<<" ", "a", " ">>)]),
     Request("create_todo", 0, [title |-> Some(<<" ", "a", " ">>),
                                priority |-> Some(5)]),
     Request("get_todo", 1, None),
     Request("update_todo", 1, [completed |-> Some(TRUE)]),
     Request("update_todo", 1, [title |-> Some(<<>>)]),
     Request("delete_todo", 1, None),
     Request("toggle_todo_completion", 1, None),
     Request("get_todo_stats", 0, None)}

\* a task that has sent nothing yet
IdleTask ==
    [pc |-> "idle", request |-> None, found |-> None, response |-> None,
     sent_at |-> 0, done_at |-> 0]

\* how many responses have been returned
ndone == Cardinality({t \in DOMAIN tasks : tasks[t].pc = "done"})

InitAsync ==
    /\ todos_storage = sample_todos
    /\ clock = 0
    /\ uuids = Len(sample_todos)
    /\ resp = NoResponse
    /\ modified = {}
    /\ deleted = {}
    /\ tasks = [t \in Tasks |-> IdleTask]

\* the handler of a request, run from its first statement to its return
Handler(request) ==
    CASE request.op = "create_todo" -> create_todo(request.body)
      [] request.op = "get_todo" -> get_todo(request.todo_id)
      [] request.op = "update_todo" -> update_todo(request.todo_id, request.body)
      [] request.op = "delete_todo" -> delete_todo(request.todo_id)
      [] request.op = "toggle_todo_completion" ->
             toggle_todo_completion(request.todo_id)
      [] request.op = "get_todo_stats" -> get_todo_stats

\* the body the framework validates before it calls the handler
rejected_by_framework(request) ==
    \/ request.op = "create_todo" /\ TodoCreate(request.body) = ValidationError
    \/ request.op = "update_todo" /\ TodoUpdate(request.body) = ValidationError

\* the handler of task t returns: the response goes to the task
returned(t, request) ==
    tasks' = [tasks EXCEPT ![t] =
                 [@ EXCEPT !.pc = "done", !.request = request, !.found = None,
                           !.response = resp', !.done_at = ndone + 1]]

\* task t sends a request: the framework rejects its body, or calls the
\* handler, which runs up to asyncio.sleep and is suspended there
send(t, request) ==
    /\ tasks[t].pc = "idle"
    /\ IF rejected_by_framework(request)
       THEN /\ Handler(request)
            /\ returned(t, request)
       ELSE /\ tasks' = [tasks EXCEPT ![t] =
                           [@ EXCEPT !.pc = "sleeping", !.request = request,
                                     !.sent_at = ndone]]
            /\ UNCHANGED <<todos_storage, clock, uuids, resp, modified, deleted>>

get_todo_by_id_sleeps == TRUE

\* whether "await get_todo_by_id(todo_id)" gives the loop to another task:
\* the coroutine has no await inside, so it does not
get_todo_by_id_suspends == FALSE

threads_free(t) == TRUE

\* the event loop runs one coroutine at a time: task t can be resumed when no
\* other handler is between its first statement and its return, unless that
\* handler is itself suspended there
event_loop_free(t) ==
    \A u \in Tasks \ {t} : tasks[u].pc = "found" => get_todo_by_id_suspends

\* the operations that go on after get_todo_by_id has returned the record
LooksUpThenMutates == {"update_todo", "delete_todo", "toggle_todo_completion"}

\* the sleep of task t is over: the handler runs to its return, or, in a
\* handler that mutates a record, to the return of get_todo_by_id
wake(t) ==
    LET request == tasks[t].request
    IN  /\ tasks[t].pc = "sleeping"
        /\ event_loop_free(t)
        /\ IF request.op \in LooksUpThenMutates /\ get_todo_by_id(request.todo_id) # 0
           THEN /\ tasks' = [tasks EXCEPT ![t] =
                               [@ EXCEPT !.pc = "found",
                                         !.found = Some(todos_storage[
                                             get_todo_by_id(request.todo_id)])]]
                /\ UNCHANGED <<todos_storage, clock, uuids, resp, modified, deleted>>
           ELSE /\ Handler(request)
                /\ returned(t, request)

\* update_todo after the lookup, on the object the lookup returned
finish_update(request, i, obj) ==
    IF i # 0
    THEN update_found(request.todo_id, i, request.body,
                      model_dump_exclude_unset(TodoUpdate(request.body)))
    ELSE /\ clock < MaxClock
         /\ resp' = Response("update_todo", 200, request.todo_id, request.body,
                       [setattr_items(obj, model_dump_exclude_unset(
                                               TodoUpdate(request.body)))
                           EXCEPT !.updated_at = Some(datetime_now)])
         /\ clock' = clock + 1
         /\ modified' = modified \cup {request.todo_id}
         /\ UNCHANGED <<todos_storage, uuids, deleted>>

\* delete_todo after the lookup: list.remove raises ValueError when the
\* object is not in the list, which no handler turns into a response
finish_delete(request, i, obj) ==
    IF i # 0
    THEN /\ todos_storage' = list_remove(todos_storage, obj)
         /\ resp' = Response("delete_todo", 204, request.todo_id, None, None)
         /\ deleted' = deleted \cup {request.todo_id}
         /\ UNCHANGED <<clock, uuids, modified>>
    ELSE /\ resp' = Response("delete_todo", 500, request.todo_id, None, None)
         /\ UNCHANGED <<todos_storage, clock, uuids, modified, deleted>>

\* toggle_todo_completion after the lookup
finish_toggle(request, i, obj) ==
    /\ clock < MaxClock
    /\ LET todo == [obj EXCEPT !.completed = not_(@),
                               !.updated_at = Some(datetime_now)]
       IN  /\ todos_storage' =
                  IF i # 0 THEN [todos_storage EXCEPT ![i] = todo] ELSE todos_storage
           /\ resp' = Response("toggle_todo_completion", 200, request.todo_id,
                               None, todo)
    /\ clock' = clock + 1
    /\ modified' = modified \cup {request.todo_id}
    /\ UNCHANGED <<uuids, deleted>>

\* the handler of task t goes on after get_todo_by_id, with the reference it
\* got: the object is the record of the list with that identity, or the
\* object alone when the list no longer holds it
finish(t) ==
    /\ tasks[t].pc = "found"
    /\ event_loop_free(t)
    /\ LET request == tasks[t].request
           i == get_todo_by_id(tasks[t].found.v.id)
           obj == IF i # 0 THEN todos_storage[i] ELSE tasks[t].found.v
       IN  /\ CASE request.op = "update_todo" -> finish_update(request, i, obj)
                [] request.op = "delete_todo" -> finish_delete(request, i, obj)
                [] request.op = "toggle_todo_completion" ->
                       finish_toggle(request, i, obj)
           /\ returned(t, request)

NextAsync ==
    \/ \E t \in Tasks, request \in AsyncRequests : send(t, request)
    \/ \E t \in Tasks : wake(t)
    \/ \E t \in Tasks : finish(t)

\* the timer of asyncio.sleep fires and the loop resumes every coroutine that
\* is ready
SpecAsync ==
    /\ InitAsync
    /\ [][NextAsync]_vars
    /\ \A t \in Tasks : WF_vars(wake(t)) /\ WF_vars(finish(t))

(***************************************************************************)
(* Properties.                                                             *)
(***************************************************************************)
IdOps == {"get_todo", "update_todo", "delete_todo", "toggle_todo_completion"}

Max(a, b) == IF a >= b THEN a ELSE b
Min(a, b) == IF a <= b THEN a ELSE b

\* C1: in every reachable state every record of the collection has a title
\* that is a string, not empty and not made of whitespace only.
C1_TitleNeverBlank ==
    \A i \in DOMAIN todos_storage :
        LET title == todos_storage[i].title
        IN  /\ title # None
            /\ \E k \in DOMAIN title.v : ~IsSpace(title.v[k])

\* C2: in every reachable state every record of the collection has a
\* priority that is an integer in 1..5.
C2_PriorityInRange ==
    \A i \in DOMAIN todos_storage :
        LET priority == todos_storage[i].priority
        IN  /\ priority # None
            /\ priority.v \in PriorityMin..PriorityMax

\* C3: a request answered with 404 or 422 leaves the collection exactly as
\* it was: same records, same field values, same order.
C3_ErrorLeavesCollection ==
    [][resp'.status \in {404, 422} => todos_storage' = todos_storage]_vars

\* an update was rejected with 422 although its id is in the collection
C3_Witness ==
    /\ resp.op = "update_todo"
    /\ resp.status = 422
    /\ \E i \in DOMAIN todos_storage : todos_storage[i].id = resp.todo_id

\* C4: a successful update changes, on the record with the requested id,
\* only the fields the body carries and updated_at: every omitted field of
\* title, description, priority, completed keeps its value, id and
\* created_at do not change, and every other record and the order stay.
C4_UpdateFrame ==
    [][(resp'.op = "update_todo" /\ resp'.status = 200) =>
          /\ Len(todos_storage') = Len(todos_storage)
          /\ \A j \in DOMAIN todos_storage :
                IF todos_storage[j].id = resp'.todo_id
                THEN /\ todos_storage'[j].id = todos_storage[j].id
                     /\ todos_storage'[j].created_at = todos_storage[j].created_at
                     /\ \A f \in ModelFields \ DOMAIN resp'.request :
                            todos_storage'[j][f] = todos_storage[j][f]
                ELSE todos_storage'[j] = todos_storage[j]]_vars

\* an update that carries one of the four fields succeeded on the second of
\* two records
C4_Witness ==
    /\ resp.op = "update_todo"
    /\ resp.status = 200
    /\ DOMAIN resp.request \cap ModelFields # {}
    /\ Len(todos_storage) >= 2
    /\ todos_storage[2].id = resp.todo_id

\* C5: no two records of the collection have the same id, and no record has
\* the id of a record that was deleted.
C5_IdsUnique ==
    /\ \A i, j \in DOMAIN todos_storage :
          i # j => todos_storage[i].id # todos_storage[j].id
    /\ \A i \in DOMAIN todos_storage : todos_storage[i].id \notin deleted

\* a record was created after another one was deleted, next to a third
C5_Witness ==
    /\ resp.op = "create_todo"
    /\ resp.status = 201
    /\ deleted # {}
    /\ Len(todos_storage) >= 2

\* C6: a record's updated_at is None exactly when no update and no toggle
\* has succeeded on it; a record just created has updated_at None, whatever
\* the body carried.
C6_UpdatedAtIffModified ==
    /\ \A i \in DOMAIN todos_storage :
          (todos_storage[i].updated_at = None) <=> (todos_storage[i].id \notin modified)
    /\ (resp.op = "create_todo" /\ resp.status = 201) => resp.result.updated_at = None

\* an update with an empty body succeeded and the record's updated_at is set,
\* while another record has never been modified
C6_Witness ==
    /\ resp.op = "update_todo"
    /\ resp.status = 200
    /\ DOMAIN resp.request = {}
    /\ resp.result.updated_at # None
    /\ \E i \in DOMAIN todos_storage : todos_storage[i].updated_at = None

\* C7: a successful toggle returns a record whose completed differs from the
\* value before the call, and a second toggle right after it (completed =
\* not completed, on the value the first one left) gives back the value
\* before the first.
C7_ToggleInvolution ==
    [][(resp'.op = "toggle_todo_completion" /\ resp'.status = 200) =>
          \A j \in DOMAIN todos_storage :
              todos_storage[j].id = resp'.todo_id =>
                  /\ resp'.result.completed # todos_storage[j].completed
                  /\ not_(resp'.result.completed) = todos_storage[j].completed]_vars

\* C8 as stated: once a delete of an id has succeeded, every later get,
\* update, toggle or delete of that id is answered 404; a successful delete
\* removes exactly the record with that id and keeps the others in order.
C8_DeletedIs404 ==
    [][/\ (resp'.op \in IdOps /\ resp'.todo_id \in deleted) => resp'.status = 404
       /\ (resp'.op = "delete_todo" /\ resp'.status = 204) =>
             LET id == resp'.todo_id
             IN  /\ Len(todos_storage') = Len(todos_storage) - 1
                 /\ todos_storage' = SelectSeq(todos_storage, LAMBDA t : t.id # id)]_vars

\* C8 amended: as above, except that an update whose body fails validation
\* is answered 422 (the body is validated before the id is looked up).
C8_DeletedIs404Or422 ==
    [][/\ (resp'.op \in IdOps /\ resp'.todo_id \in deleted) =>
             IF resp'.op = "update_todo" /\ TodoUpdate(resp'.request) = ValidationError
             THEN resp'.status = 422
             ELSE resp'.status = 404
       /\ (resp'.op = "delete_todo" /\ resp'.status = 204) =>
             LET id == resp'.todo_id
             IN  /\ Len(todos_storage') = Len(todos_storage) - 1
                 /\ todos_storage' = SelectSeq(todos_storage, LAMBDA t : t.id # id)]_vars

\* a get of a deleted id was answered 404 while two other records remain
C8_Witness ==
    /\ resp.op = "get_todo"
    /\ resp.todo_id \in deleted
    /\ resp.status = 404
    /\ Len(todos_storage) >= 2

\* the query of a list request is within the documented ranges
ValidQuery(q) ==
    /\ q.limit \in LimitMin..LimitMax
    /\ q.skip >= SkipMin
    /\ q.priority # None => q.priority.v \in PriorityMin..PriorityMax

\* the record satisfies every filter the query gives
Matches(todo, q) ==
    /\ q.completed # None => todo.completed = q.completed
    /\ q.priority # None => todo.priority = q.priority

\* C9: a list request with limit L in 1..100 and skip S >= 0 succeeds and
\* returns max(0, min(L, N - S)) records, N being the number of records
\* that match the filters: those at positions S+1.. of the matching records
\* taken in insertion order.
C9_ListPage ==
    (resp.op = "get_todos" /\ ValidQuery(resp.request)) =>
        /\ resp.status = 200
        /\ LET q == resp.request
               matching == SelectSeq(todos_storage, LAMBDA t : Matches(t, q))
           IN  /\ Len(resp.result) = Max(0, Min(q.limit, Len(matching) - q.skip))
               /\ \A k \in DOMAIN resp.result : resp.result[k] = matching[q.skip + k]

\* a page that starts after the first matching record and ends before the last
\* record of the list
C9_Witness ==
    /\ resp.op = "get_todos"
    /\ resp.status = 200
    /\ resp.request.skip = 1
    /\ resp.request.limit = 1
    /\ Len(todos_storage) = 2
    /\ resp.result = <<todos_storage[2]>>

\* C10: with the page wide enough to hold every record, a list request
\* returns exactly the records that equal each filter given (both, when both
\* are given): none of them is missing and no other record is returned.
C10_FilterExact ==
    (/\ resp.op = "get_todos"
     /\ resp.status = 200
     /\ resp.request.skip = 0
     /\ resp.request.limit >= Len(todos_storage)) =>
        LET c == resp.request.completed
            p == resp.request.priority
            wanted(todo) == /\ (c = None \/ todo.completed = c)
                            /\ (p = None \/ todo.priority = p)
        IN  /\ \A i \in DOMAIN todos_storage :
                  wanted(todos_storage[i]) <=>
                      \E k \in DOMAIN resp.result : resp.result[k] = todos_storage[i]
            /\ \A k \in DOMAIN resp.result :
                  \E i \in DOMAIN todos_storage : resp.result[k] = todos_storage[i]

\* both filters are given, one record matches both and the other only one
C10_Witness ==
    /\ resp.op = "get_todos"
    /\ resp.status = 200
    /\ resp.request.completed # None
    /\ resp.request.priority # None
    /\ Len(resp.result) = 1
    /\ \E i \in DOMAIN todos_storage :
          /\ todos_storage[i].completed = resp.request.completed
          /\ todos_storage[i].priority # resp.request.priority

\* C11: a stats response gives total_todos equal to the number of records of
\* the collection and to completed_todos + pending_todos, completed_todos
\* being the number of records whose completed is true; a health response
\* gives the same total_todos.
C11_StatsTotals ==
    /\ resp.op = "get_todo_stats" =>
          /\ resp.status = 200
          /\ resp.result.total_todos = Len(todos_storage)
          /\ resp.result.total_todos =
                resp.result.completed_todos + resp.result.pending_todos
          /\ resp.result.completed_todos =
                Cardinality({i \in DOMAIN todos_storage :
                                todos_storage[i].completed = Some(TRUE)})
    /\ resp.op = "health_check" =>
          /\ resp.status = 200
          /\ resp.result.total_todos = Len(todos_storage)

\* stats of a collection that holds completed and pending records
C11_Witness ==
    /\ resp.op = "get_todo_stats"
    /\ resp.result.completed_todos >= 1
    /\ resp.result.pending_todos >= 1

\* C12 as stated: in a stats response the key priority_N is present only
\* when a record has priority N, and then its value is their number.
C12_ZeroLevelsOmitted ==
    resp.op = "get_todo_stats" =>
        \A p \in PriorityMin..PriorityMax :
            LET n == Cardinality({i \in DOMAIN todos_storage :
                                     todos_storage[i].priority = Some(p)})
            IN  /\ priority_key(p) \in DOMAIN resp.result <=> n > 0
                /\ priority_key(p) \in DOMAIN resp.result =>
                      resp.result[priority_key(p)] = n

\* C12 amended: a stats response carries all five keys priority_1 ..
\* priority_5, each with the number of records of that priority, 0 when
\* there is none.
C12_AllLevelsPresent ==
    resp.op = "get_todo_stats" =>
        \A p \in PriorityMin..PriorityMax :
            /\ priority_key(p) \in DOMAIN resp.result
            /\ resp.result[priority_key(p)] =
                  Cardinality({i \in DOMAIN todos_storage :
                                  todos_storage[i].priority = Some(p)})

\* stats of a collection with a record of priority 5 and none of priority 1
C12_Witness ==
    /\ resp.op = "get_todo_stats"
    /\ resp.result.total_todos >= 1
    /\ resp.result["priority_5"] >= 1
    /\ resp.result["priority_1"] = 0

\* the title and the priority of the body are within the documented limits
WithinLimits(body) ==
    /\ Len(body.title.v) \in 1..200
    /\ \E k \in DOMAIN body.title.v : body.title.v[k] # " "
    /\ "priority" \in DOMAIN body => body.priority.v \in 1..5

\* t is s without the spaces at its two ends
IsTrimOf(t, s) ==
    /\ t # <<>>
    /\ t[1] # " "
    /\ t[Len(t)] # " "
    /\ \E i \in 1..Len(s) :
          /\ i + Len(t) - 1 <= Len(s)
          /\ SubSeq(s, i, i + Len(t) - 1) = t
          /\ \A k \in 1..Len(s) : (k < i \/ k > i + Len(t) - 1) => s[k] = " "

\* C13: a create whose title has 1..200 characters, not all of them spaces,
\* and whose priority is absent or in 1..5 is answered 201 and appends the
\* record with the trimmed title; any other create (title empty, only
\* spaces or of 201 characters, priority 0 or 6) is answered 422 and stores
\* nothing.
C13_CreateBoundaries ==
    [][\A body \in BoundaryBodies :
          (resp = NoResponse /\ create_todo(body)) =>
              IF WithinLimits(body)
              THEN /\ resp'.status = 201
                   /\ todos_storage' = Append(todos_storage, resp'.result)
                   /\ IsTrimOf(resp'.result.title.v, body.title.v)
              ELSE /\ resp'.status = 422
                   /\ todos_storage' = todos_storage]_vars

\* a title of exactly 200 characters was accepted with priority 5, after a
\* padded one was stored trimmed
C13_Witness ==
    /\ resp.op = "create_todo"
    /\ resp.status = 201
    /\ Len(resp.request.title.v) = TitleMaxLength
    /\ resp.result.priority = Some(PriorityMax)
    /\ Len(todos_storage) >= 2
    /\ Len(todos_storage[1].title.v) = TitleMaxLength - 2

\* C14: every response with status 404 or 422 carries a timestamp and a
\* detail, and the detail of a 404 names the requested id.
C14_ErrorsCarryTimestamp ==
    resp.status \in {404, 422} =>
        /\ "detail" \in DOMAIN resp.result
        /\ "timestamp" \in DOMAIN resp.result
        /\ resp.status = 404 =>
              resp.result.detail = <<"Todo with ID ", resp.todo_id, " not found">>

\* C18: in a stats response the five per-priority counts add up to
\* total_todos.
C18_PriorityCountsSumToTotal ==
    resp.op = "get_todo_stats" =>
        resp.result["priority_1"] + resp.result["priority_2"]
            + resp.result["priority_3"] + resp.result["priority_4"]
            + resp.result["priority_5"] = resp.result.total_todos

\* C19: every record is matched by exactly one of the list filters
\* completed=true and completed=false, and the stats of the same collection
\* give the two numbers as completed_todos and pending_todos.
C19_CompletedPartition ==
    LET done == apply_filters(todos_storage, Some(TRUE), None)
        pending == apply_filters(todos_storage, Some(FALSE), None)
        stats == todo_stats(todos_storage)
    IN  /\ \A i \in DOMAIN todos_storage :
              (\E k \in DOMAIN done : done[k] = todos_storage[i])
                  # (\E k \in DOMAIN pending : pending[k] = todos_storage[i])
        /\ stats.completed_todos = Len(done)
        /\ stats.pending_todos = Len(pending)

\* a value the body carries breaks a constraint of its field
ViolatesConstraint(body) ==
    \/ /\ "title" \in DOMAIN body
       /\ body.title # None
       /\ \/ Len(body.title.v) \notin 1..200
          \/ \A k \in DOMAIN body.title.v : IsSpace(body.title.v[k])
    \/ /\ "description" \in DOMAIN body
       /\ body.description # None
       /\ Len(body.description.v) > 1000
    \/ /\ "priority" \in DOMAIN body
       /\ body.priority # None
       /\ body.priority.v \notin 1..5

\* C20: an update is answered 422 exactly when its body breaks a field
\* constraint, whether or not the id is in the collection, and 404 exactly
\* when the body is valid and the id is not in the collection.
C20_ValidateBeforeLookup ==
    resp.op = "update_todo" =>
        LET absent == \A i \in DOMAIN todos_storage :
                          todos_storage[i].id # resp.todo_id
        IN  /\ resp.status = 422 <=> ViolatesConstraint(resp.request)
            /\ resp.status = 404 <=> (absent /\ ~ViolatesConstraint(resp.request))

\* an update with an empty title was answered 422 on an id that is not in the
\* collection, which holds another record
C20_Witness ==
    /\ resp.op = "update_todo"
    /\ resp.status = 422
    /\ todos_storage # <<>>
    /\ \A i \in DOMAIN todos_storage : todos_storage[i].id # resp.todo_id

\* the tasks whose handler has returned
Done == {t \in DOMAIN tasks : tasks[t].pc = "done"}

\* tasks t and u have both returned and each was sent before the other
\* returned
Overlapped(t, u) ==
    /\ {t, u} \subseteq Done
    /\ tasks[t].sent_at < tasks[u].done_at
    /\ tasks[u].sent_at < tasks[t].done_at

\* C15: when the requests in flight are all creates, every one that has
\* returned was answered 201, and the collection is the records that were
\* there before, followed by one record per returned create, the one its
\* response carries, with pairwise distinct ids.
C15_ConcurrentCreates ==
    (\A t \in DOMAIN tasks :
        tasks[t].pc # "idle" => tasks[t].request.op = "create_todo") =>
        LET n0 == Len(sample_todos)
        IN  /\ Len(todos_storage) = n0 + Cardinality(Done)
            /\ SubSeq(todos_storage, 1, n0) = sample_todos
            /\ \A t \in Done :
                  /\ tasks[t].response.status = 201
                  /\ todos_storage[n0 + tasks[t].done_at] = tasks[t].response.result
            /\ \A i, j \in DOMAIN todos_storage :
                  i # j => todos_storage[i].id # todos_storage[j].id

\* every task has sent a create while no other had returned, and all have
\* returned
C15_Witness ==
    /\ DOMAIN tasks # {}
    /\ Done = DOMAIN tasks
    /\ \A t \in Done : tasks[t].request.op = "create_todo" /\ tasks[t].sent_at = 0
    /\ \E t, u \in Done : tasks[t].request.body # tasks[u].request.body

\* C16: the step in which a handler returns is a step of that handler run
\* alone, from its first statement, on the collection as it is then, and no
\* other step changes the collection: the responses and the collection are
\* those of the handlers run one after the other in the order of their
\* returns; and every handler that was called returns.
C16_Serializable ==
    /\ [][/\ \A t \in DOMAIN tasks :
                (tasks[t].pc # "done" /\ tasks'[t].pc = "done") =>
                    Handler(tasks'[t].request)
          /\ (\A t \in DOMAIN tasks : tasks'[t].pc = "done" <=> tasks[t].pc = "done") =>
                UNCHANGED <<todos_storage, clock, uuids, modified, deleted>>]_vars
    /\ \A t \in Tasks : (tasks[t].pc = "sleeping") ~> (tasks[t].pc = "done")

\* a delete and an update of the same record were in flight together: the
\* delete returned 204 and the update, resumed after it, 404
C16_Witness ==
    \E t, u \in DOMAIN tasks :
        /\ Overlapped(t, u)
        /\ tasks[t].request.op = "delete_todo"
        /\ tasks[t].response.status = 204
        /\ tasks[u].request.op = "update_todo"
        /\ tasks[u].response.status = 404

\* C17: of the deletes of one sample record that have returned, exactly one
\* was answered 204 and every other one 404, the record is gone and was
\* removed once; a sample record no delete was sent for is still in the
\* collection; no handler ended in an unhandled error.
C17_ConcurrentDeletes ==
    /\ \A t \in Done : tasks[t].response.status # 500
    /\ \A k \in DOMAIN sample_todos :
          LET id == sample_todos[k].id
              deletes == {t \in Done : /\ tasks[t].request.op = "delete_todo"
                                       /\ tasks[t].request.todo_id = id}
              held == {i \in DOMAIN todos_storage : todos_storage[i].id = id}
          IN  /\ \A t \in deletes : tasks[t].response.status \in {204, 404}
              /\ deletes # {} =>
                    /\ Cardinality({t \in deletes : tasks[t].response.status = 204}) = 1
                    /\ held = {}
              /\ deletes = {} /\ tasks # <<>> => Cardinality(held) = 1

\* two deletes of the same record were in flight together and have returned,
\* one with 204 and one with 404
C17_Witness ==
    \E t, u \in DOMAIN tasks :
        /\ Overlapped(t, u)
        /\ tasks[t].request = Request("delete_todo", 1, None)
        /\ tasks[u].request = Request("delete_todo", 1, None)
        /\ tasks[t].response.status = 204
        /\ tasks[u].response.status = 404
        /\ Len(todos_storage) = Len(sample_todos) - 1

====
